---- MODULE Spec2Model ----
(***************************************************************************)
(* Model of the decision-diagram core of k-map-simpl                       *)
(* (src/include/karnaugh.h): the canonical node store global_node_sink,    *)
(* literal, invert, join, disjoin and conjoin.                             *)
(*                                                                         *)
(* A node reference (const node* ) is an address.  ZERO and ONE are the    *)
(* two terminal addresses; every other address names a node object that    *)
(* lives inside exactly one std::set<node>.  mem gives the fields of each  *)
(* allocated node, stores the addresses each std::set<node> holds.         *)
(***************************************************************************)
EXTENDS Integers, Sequences, FiniteSets

(* ---------------------------- bounds ---------------------------------- *)
NumVars   == 2      \* variable indices (depths) are 0 .. NumVars-1
NumStores == 2      \* std::set<node> objects owned by the caller
MaxNodes  == 3      \* node objects allocated over all stores
MaxRest   == 1      \* operands of an n-ary join beyond the first two
DeepVars  == 2      \* variable indices of the diagrams handed to a traced invert
DeepNodes == 4      \* nodes of the diagrams handed to a traced invert

(* --------------------------- references ------------------------------- *)
ZERO  == 0          \* terminal reference, constant false
ONE   == 1          \* terminal reference, constant true
NULL  == 0          \* nullptr of type std::set<node>*
NoRef == -1         \* "the call did not return"

Depths   == 0 .. (NumVars - 1)
StoreIds == 1 .. NumStores
StorePtr == StoreIds \cup {NULL}

VARIABLES
    mem,        \* Seq of [depth, negative, positive]: node at address i+1
    stores,     \* [StoreIds -> SUBSET address]: contents of each std::set<node>
    s_factors,  \* global_node_sink::s_factors, the bound store or NULL
    status,     \* "ok", or how the process ended
    last,       \* the call that produced this state, and what it returned
    last_bind,  \* history: the argument of the latest bind call
    caches      \* the two std::map objects a caller keeps between calls of
                \* the overloads that take a cache: [invert, join]

vars == <<mem, stores, s_factors, status, last, last_bind, caches>>

(* The node object at a non-terminal address. *)
deref(m, a) == m.mem[a - 1]

Refs(m) == {ZERO, ONE} \cup {i + 1 : i \in 1 .. Len(m.mem)}

IsTerminal(a) == a = ZERO \/ a = ONE

(* Equivalence of two node values under the ordering of std::set<node>. *)
node_equal(n1, n2) ==
    /\ n1.depth = n2.depth
    /\ n1.negative = n2.negative
    /\ n1.positive = n2.positive

(* The machine state the recursive operations thread through:            *)
(*   mem, stores as above; ok = FALSE once a null store was dereferenced  *)
(*   or a field of a terminal was read.                                   *)
Machine == [mem |-> mem, stores |-> stores, ok |-> TRUE]

(* emplace that never looks the node up: every call allocates. *)
emplace_fresh(m, b, a_depth, a_left_child, a_right_child) ==
    IF ~m.ok THEN [m |-> m, ret |-> NoRef]
    ELSE IF a_left_child = a_right_child
    THEN [m |-> m, ret |-> a_left_child]
    ELSE IF b = NULL
    THEN [m |-> [m EXCEPT !.ok = FALSE], ret |-> NoRef]
    ELSE LET n == [depth    |-> a_depth,
                   negative |-> a_left_child,
                   positive |-> a_right_child]
             fresh == Len(m.mem) + 2
         IN [m |-> [m EXCEPT !.mem = Append(@, n),
                             !.stores[b] = @ \cup {fresh}],
             ret |-> fresh]

(* emplace without the simplification of equal children. *)
emplace_noreduce(m, b, a_depth, a_left_child, a_right_child) ==
    IF ~m.ok THEN [m |-> m, ret |-> NoRef]
    ELSE IF b = NULL
    THEN [m |-> [m EXCEPT !.ok = FALSE], ret |-> NoRef]
    ELSE LET n == [depth    |-> a_depth,
                   negative |-> a_left_child,
                   positive |-> a_right_child]
             hit == {a \in m.stores[b] : node_equal(deref(m, a), n)}
             fresh == Len(m.mem) + 2
         IN IF hit # {}
            THEN [m |-> m, ret |-> CHOOSE a \in hit : TRUE]
            ELSE [m |-> [m EXCEPT !.mem = Append(@, n),
                                  !.stores[b] = @ \cup {fresh}],
                  ret |-> fresh]

(* emplace that inserts into the first store, whichever is bound. *)
emplace_first_store(m, b, a_depth, a_left_child, a_right_child) ==
    IF ~m.ok THEN [m |-> m, ret |-> NoRef]
    ELSE IF a_left_child = a_right_child
    THEN [m |-> m, ret |-> a_left_child]
    ELSE IF b = NULL
    THEN [m |-> [m EXCEPT !.ok = FALSE], ret |-> NoRef]
    ELSE LET n == [depth    |-> a_depth,
                   negative |-> a_left_child,
                   positive |-> a_right_child]
             hit == {a \in m.stores[1] : node_equal(deref(m, a), n)}
             fresh == Len(m.mem) + 2
         IN IF hit # {}
            THEN [m |-> m, ret |-> CHOOSE a \in hit : TRUE]
            ELSE [m |-> [m EXCEPT !.mem = Append(@, n),
                                  !.stores[1] = @ \cup {fresh}],
                  ret |-> fresh]

(* global_node_sink::emplace against the store b = s_factors. *)
emplace(m, b, a_depth, a_left_child, a_right_child) ==
    IF ~m.ok THEN [m |-> m, ret |-> NoRef]
    ELSE IF a_left_child = a_right_child
    THEN [m |-> m, ret |-> a_left_child]
    ELSE IF b = NULL
    THEN [m |-> [m EXCEPT !.ok = FALSE], ret |-> NoRef]
    ELSE LET n == [depth    |-> a_depth,
                   negative |-> a_left_child,
                   positive |-> a_right_child]
             hit == {a \in m.stores[b] : node_equal(deref(m, a), n)}
             fresh == Len(m.mem) + 2
         IN IF hit # {}
            THEN [m |-> m, ret |-> CHOOSE a \in hit : TRUE]
            ELSE [m |-> [m EXCEPT !.mem = Append(@, n),
                                  !.stores[b] = @ \cup {fresh}],
                  ret |-> fresh]

(* literal that ignores a_sign and always builds the positive literal. *)
literal_positive(m, b, a_variable_index, a_sign) ==
    emplace(m, b, a_variable_index, ZERO, ONE)

(* literal(a_variable_index, a_sign) *)
literal(m, b, a_variable_index, a_sign) ==
    emplace(m, b, a_variable_index,
            IF ~a_sign THEN ONE ELSE ZERO,
            IF a_sign THEN ONE ELSE ZERO)

EmptyCache == [k \in {} |-> NoRef]

(* The caller's two maps, as constructed. *)
NoCaches == [invert |-> EmptyCache, join |-> EmptyCache]

put(cache, key, value) ==
    [k \in DOMAIN cache \cup {key} |-> IF k = key THEN value ELSE cache[k]]

(* A machine that carries a trace notes every use of the CACHE macro:     *)
(* the key, whether cache.contains(key) held, the value handed back, and  *)
(* the cache before and after.                                            *)
Note(m, key, hit, ret, before, after) ==
    IF "trace" \in DOMAIN m
    THEN [m EXCEPT !.trace = Append(@, [key |-> key, hit |-> hit,
                                        ret |-> ret, before |-> before,
                                        after |-> after])]
    ELSE m

(* CACHE that computes the value and never stores it. *)
CACHE_forget(m, cache, key, value) ==
    IF key \in DOMAIN cache
    THEN [m |-> Note(m, key, TRUE, cache[key], cache, cache),
          cache |-> cache, ret |-> cache[key]]
    ELSE IF ~value.m.ok
    THEN [m |-> value.m, cache |-> value.cache, ret |-> NoRef]
    ELSE [m |-> Note(value.m, key, FALSE, value.ret, cache, value.cache),
          cache |-> value.cache, ret |-> value.ret]

(* The CACHE macro: value is the (lazily evaluated) computation, itself a *)
(* result [m, cache, ret] that started from cache.                        *)
CACHE(m, cache, key, value) ==
    IF key \in DOMAIN cache
    THEN [m |-> Note(m, key, TRUE, cache[key], cache, cache),
          cache |-> cache, ret |-> cache[key]]
    ELSE IF ~value.m.ok
    THEN [m |-> value.m, cache |-> value.cache, ret |-> NoRef]
    ELSE [m |-> Note(value.m, key, FALSE, value.ret, cache,
                     put(value.cache, key, value.ret)),
          cache |-> put(value.cache, key, value.ret),
          ret |-> value.ret]

(* The two arguments of a call are evaluated in an order the language     *)
(* leaves unspecified: ord = "lr" first evaluates the negative branch,    *)
(* "rl" the positive one.                                                 *)
ArgOrders == {"lr", "rl"}

RECURSIVE invert_c_swapped(_, _, _, _, _)
(* invert that hands the two inverted children to emplace the wrong way   *)
(* round.                                                                 *)
invert_c_swapped(m, b, a_cache, a_node, ord) ==
    IF ~m.ok THEN [m |-> m, cache |-> a_cache, ret |-> NoRef]
    ELSE IF a_node = ZERO THEN [m |-> m, cache |-> a_cache, ret |-> ONE]
    ELSE IF a_node = ONE THEN [m |-> m, cache |-> a_cache, ret |-> ZERO]
    ELSE CACHE(m, a_cache, a_node,
            LET n  == deref(m, a_node)
                r1 == invert_c_swapped(m, b, a_cache, n.negative, ord)
                r2 == invert_c_swapped(r1.m, b, r1.cache, n.positive, ord)
                e  == emplace(r2.m, b, n.depth, r2.ret, r1.ret)
            IN [m |-> e.m, cache |-> r2.cache, ret |-> e.ret])

RECURSIVE invert_c(_, _, _, _, _)
(* invert(a_cache, a_node) *)
invert_c(m, b, a_cache, a_node, ord) ==
    IF ~m.ok THEN [m |-> m, cache |-> a_cache, ret |-> NoRef]
    ELSE IF a_node = ZERO THEN [m |-> m, cache |-> a_cache, ret |-> ONE]
    ELSE IF a_node = ONE THEN [m |-> m, cache |-> a_cache, ret |-> ZERO]
    ELSE CACHE(m, a_cache, a_node,
            LET n  == deref(m, a_node)
                c1 == IF ord = "lr" THEN n.negative ELSE n.positive
                c2 == IF ord = "lr" THEN n.positive ELSE n.negative
                r1 == invert_c(m, b, a_cache, c1, ord)
                r2 == invert_c(r1.m, b, r1.cache, c2, ord)
                e  == emplace(r2.m, b, n.depth,
                              IF ord = "lr" THEN r1.ret ELSE r2.ret,
                              IF ord = "lr" THEN r2.ret ELSE r1.ret)
            IN [m |-> e.m, cache |-> r2.cache, ret |-> e.ret])

(* invert(a_node): a fresh cache per top-level call. *)
invert(m, b, a_node, ord) == invert_c(m, b, EmptyCache, a_node, ord)

(* std::max in place of std::min. *)
Min_greater(a, b) == IF a < b THEN b ELSE a

Min(a, b) == IF a < b THEN a ELSE b

(* join whose first short-circuit returns the identity operand itself. *)
join_short_same(a_ident, a_antident, a_x, a_y) ==
    IF a_x = a_ident THEN a_x
    ELSE IF a_y = a_ident THEN a_x
    ELSE IF a_x = a_antident \/ a_y = a_antident THEN a_antident
    ELSE NoRef

(* join, lines 228-238: the identity and annihilator short-circuits;      *)
(* NoRef when neither applies.                                            *)
join_short(a_ident, a_antident, a_x, a_y) ==
    IF a_x = a_ident THEN a_y
    ELSE IF a_y = a_ident THEN a_x
    ELSE IF a_x = a_antident \/ a_y = a_antident THEN a_antident
    ELSE NoRef

(* join that traverses both operands whatever their depths. *)
branches_both(m, a_x, a_y) ==
    LET x == deref(m, a_x)
        y == deref(m, a_y)
    IN [x_left |-> x.negative, x_right |-> x.positive,
        y_left |-> y.negative, y_right |-> y.positive]

(* join that traverses a_y only when it tests the earlier variable: at     *)
(* equal depths a_x alone is traversed.                                   *)
branches_hold_y(m, a_x, a_y) ==
    LET x == deref(m, a_x)
        y == deref(m, a_y)
    IN IF x.depth > y.depth
       THEN [x_left |-> a_x, x_right |-> a_x,
             y_left |-> y.negative, y_right |-> y.positive]
       ELSE [x_left |-> x.negative, x_right |-> x.positive,
             y_left |-> a_y, y_right |-> a_y]

(* join, lines 244-261: the branches to recur on; the operand of greater  *)
(* depth is not traversed.                                                *)
branches(m, a_x, a_y) ==
    LET x == deref(m, a_x)
        y == deref(m, a_y)
    IN IF x.depth > y.depth
       THEN [x_left |-> a_x, x_right |-> a_x,
             y_left |-> y.negative, y_right |-> y.positive]
       ELSE IF y.depth > x.depth
       THEN [x_left |-> x.negative, x_right |-> x.positive,
             y_left |-> a_y, y_right |-> a_y]
       ELSE [x_left |-> x.negative, x_right |-> x.positive,
             y_left |-> y.negative, y_right |-> y.positive]

RECURSIVE join_c(_, _, _, _, _, _, _, _)
(* join(a_cache, a_ident, a_antident, a_x, a_y).  An operand that is a    *)
(* terminal and passes the short-circuits (possible only when a_ident,    *)
(* a_antident are not ZERO and ONE) has its fields read at lines 244-247; *)
(* what a terminal's fields hold is not defined by the header, so the     *)
(* call is treated like the null dereference.                             *)
join_c(m, b, a_cache, a_ident, a_antident, a_x, a_y, ord) ==
    IF ~m.ok THEN [m |-> m, cache |-> a_cache, ret |-> NoRef]
    ELSE IF join_short(a_ident, a_antident, a_x, a_y) # NoRef
    THEN [m |-> m, cache |-> a_cache,
          ret |-> join_short(a_ident, a_antident, a_x, a_y)]
    ELSE IF IsTerminal(a_x) \/ IsTerminal(a_y)
    THEN [m |-> [m EXCEPT !.ok = FALSE], cache |-> a_cache, ret |-> NoRef]
    ELSE
      LET l == branches(m, a_x, a_y)
          l_key == {a_x, a_y}
      IN CACHE(m, a_cache, l_key,
            LET fx == IF ord = "lr" THEN l.x_left ELSE l.x_right
                fy == IF ord = "lr" THEN l.y_left ELSE l.y_right
                sx == IF ord = "lr" THEN l.x_right ELSE l.x_left
                sy == IF ord = "lr" THEN l.y_right ELSE l.y_left
                r1 == join_c(m, b, a_cache, a_ident, a_antident, fx, fy, ord)
                r2 == join_c(r1.m, b, r1.cache, a_ident, a_antident, sx, sy, ord)
                e  == emplace(r2.m, b,
                              Min(deref(m, a_x).depth, deref(m, a_y).depth),
                              IF ord = "lr" THEN r1.ret ELSE r2.ret,
                              IF ord = "lr" THEN r2.ret ELSE r1.ret)
            IN [m |-> e.m, cache |-> r2.cache, ret |-> e.ret])

(* join(a_ident, a_antident, a_x, a_y) with no remaining operands. *)
join(m, b, a_ident, a_antident, a_x, a_y, ord) ==
    join_c(m, b, EmptyCache, a_ident, a_antident, a_x, a_y, ord)

disjoin(m, b, a_x, a_y, ord) == join(m, b, ZERO, ONE, a_x, a_y, ord)

conjoin(m, b, a_x, a_y, ord) == join(m, b, ONE, ZERO, a_x, a_y, ord)

RECURSIVE join_n(_, _, _, _, _, _, _, _)
(* join(a_ident, a_antident, a_x, a_y, a_remaining_operands...): the      *)
(* overload constructs l_cache, joins a_x and a_y with it, and with       *)
(* operands remaining calls itself on the junction and the rest.  folds   *)
(* lists, per invocation of the overload, the l_cache it started from     *)
(* and the l_cache it ended with.                                         *)
join_n(m, b, a_ident, a_antident, a_x, a_y, a_remaining_operands, ord) ==
    LET l_cache    == EmptyCache
        l_junction == join_c(m, b, l_cache, a_ident, a_antident,
                             a_x, a_y, ord)
        fold       == [start |-> l_cache, end |-> l_junction.cache]
    IN IF Len(a_remaining_operands) > 0
       THEN LET r == join_n(l_junction.m, b, a_ident, a_antident,
                            l_junction.ret, Head(a_remaining_operands),
                            Tail(a_remaining_operands), ord)
            IN [m |-> r.m, ret |-> r.ret, folds |-> <<fold>> \o r.folds]
       ELSE [m |-> l_junction.m, ret |-> l_junction.ret,
             folds |-> <<fold>>]

disjoin_n(m, b, a_x, a_y, a_remaining_operands, ord) ==
    join_n(m, b, ZERO, ONE, a_x, a_y, a_remaining_operands, ord)

conjoin_n(m, b, a_x, a_y, a_remaining_operands, ord) ==
    join_n(m, b, ONE, ZERO, a_x, a_y, a_remaining_operands, ord)

(* bind that hands back the store it was given. *)
bind_returns_new(b, a_factors) == [s_factors |-> a_factors, ret |-> a_factors]

(* global_node_sink::bind *)
bind(b, a_factors) == [s_factors |-> a_factors, ret |-> b]

(* ------------------------- the state machine --------------------------- *)

(* Dereferencing the null store pointer is undefined behaviour: the       *)
(* process is killed, or anything else happens; either way the run ends.  *)
NullDerefOutcomes == {"fatal", "undefined"}

NoCall == [op |-> "none", d |-> 0, x |-> 0, y |-> 0, ret |-> NoRef,
           bound |-> NULL, pre |-> 0]

Init ==
    /\ mem = <<>>
    /\ stores = [s \in StoreIds |-> {}]
    /\ s_factors = NULL
    /\ status = "ok"
    /\ last = NoCall
    /\ last_bind = NULL
    /\ caches = NoCaches

(* Commit the result r of a construction call. *)
Commit(r, call) ==
    /\ Len(r.m.mem) <= MaxNodes
    /\ IF r.m.ok
       THEN /\ mem' = r.m.mem
            /\ stores' = r.m.stores
            /\ status' = "ok"
            /\ last' = [call EXCEPT !.ret = r.ret]
       ELSE /\ mem' = mem
            /\ stores' = stores
            /\ status' \in NullDerefOutcomes
            /\ last' = [call EXCEPT !.ret = NoRef]
    /\ UNCHANGED <<s_factors, last_bind, caches>>

Call(op, d, x, y) ==
    [op |-> op, d |-> d, x |-> x, y |-> y, ret |-> NoRef,
     bound |-> s_factors, pre |-> Len(mem)]

CallBind ==
    /\ status = "ok"
    /\ \E a_factors \in StorePtr :
         LET r == bind(s_factors, a_factors)
         IN /\ s_factors' = r.s_factors
            /\ last_bind' = a_factors
            /\ last' = [Call("bind", 0, a_factors, 0) EXCEPT !.ret = r.ret]
            /\ UNCHANGED <<mem, stores, status, caches>>

(* global_node_sink::emplace called by the caller itself, with any depth  *)
(* and any two references.                                                *)
CallEmplace ==
    /\ status = "ok"
    /\ \E d \in Depths, l \in Refs(Machine), r \in Refs(Machine) :
         Commit(emplace(Machine, s_factors, d, l, r),
                Call("emplace", d, l, r))

CallLiteral ==
    /\ status = "ok"
    /\ \E i \in Depths, sign \in BOOLEAN :
         Commit(literal(Machine, s_factors, i, sign),
                Call("literal", i, IF sign THEN 1 ELSE 0, 0))

CallInvert ==
    /\ status = "ok"
    /\ \E n \in Refs(Machine), ord \in ArgOrders :
         Commit(invert(Machine, s_factors, n, ord),
                Call("invert", 0, n, 0))

CallDisjoin ==
    /\ status = "ok"
    /\ \E x \in Refs(Machine), y \in Refs(Machine), ord \in ArgOrders :
         Commit(disjoin(Machine, s_factors, x, y, ord),
                Call("disjoin", 0, x, y))

CallConjoin ==
    /\ status = "ok"
    /\ \E x \in Refs(Machine), y \in Refs(Machine), ord \in ArgOrders :
         Commit(conjoin(Machine, s_factors, x, y, ord),
                Call("conjoin", 0, x, y))

(* Commit the result r of a call that was handed one of the caller's      *)
(* maps; kept is what the two maps hold afterwards.                       *)
CommitCache(r, call, kept) ==
    /\ Len(r.m.mem) <= MaxNodes
    /\ IF r.m.ok
       THEN /\ mem' = r.m.mem
            /\ stores' = r.m.stores
            /\ status' = "ok"
            /\ last' = [call EXCEPT !.ret = r.ret]
       ELSE /\ mem' = mem
            /\ stores' = stores
            /\ status' \in NullDerefOutcomes
            /\ last' = [call EXCEPT !.ret = NoRef]
    /\ caches' = kept
    /\ UNCHANGED <<s_factors, last_bind>>

(* invert(a_cache, a_node) called by the caller with the map it keeps. *)
CallInvertCache ==
    /\ status = "ok"
    /\ \E n \in Refs(Machine), ord \in ArgOrders :
         LET r == invert_c(Machine, s_factors, caches.invert, n, ord)
         IN CommitCache(r, Call("invert_c", 0, n, 0),
                        [caches EXCEPT !.invert = r.cache])

(* join(a_cache, a_ident, a_antident, a_x, a_y) called by the caller with *)
(* the map it keeps and any four references; d records a_ident.           *)
CallJoinCache ==
    /\ status = "ok"
    /\ \E a_ident \in Refs(Machine), a_antident \in Refs(Machine),
          x \in Refs(Machine), y \in Refs(Machine), ord \in ArgOrders :
         LET r == join_c(Machine, s_factors, caches.join, a_ident,
                         a_antident, x, y, ord)
         IN CommitCache(r, Call("join_c", a_ident, x, y),
                        [caches EXCEPT !.join = r.cache])

(* The program with a caller that builds every diagram with literal,      *)
(* invert(a_node), disjoin(a_x, a_y) and conjoin(a_x, a_y), rebinding as  *)
(* it likes, and never calls emplace itself.                              *)
NextOps ==
    \/ CallBind
    \/ CallLiteral
    \/ CallInvert
    \/ CallDisjoin
    \/ CallConjoin

SpecOps == Init /\ [][NextOps]_vars

(* Commit the result r of an n-ary join, keeping its folds. *)
CommitN(r, call) ==
    /\ Len(r.m.mem) <= MaxNodes
    /\ IF r.m.ok
       THEN /\ mem' = r.m.mem
            /\ stores' = r.m.stores
            /\ status' = "ok"
            /\ last' = [call EXCEPT !.ret = r.ret, !.folds = r.folds]
       ELSE /\ mem' = mem
            /\ stores' = stores
            /\ status' \in NullDerefOutcomes
            /\ last' = [call EXCEPT !.ret = NoRef]
    /\ UNCHANGED <<s_factors, last_bind, caches>>

CallN(op, x, y, rest) ==
    [op |-> op, d |-> 0, x |-> x, y |-> y, rest |-> rest, ret |-> NoRef,
     bound |-> s_factors, pre |-> Len(mem), folds |-> <<>>]

(* The operand lists a caller passes after the first two. *)
Rests(m) == UNION {[1 .. k -> Refs(m)] : k \in 1 .. MaxRest}

CallDisjoinN ==
    /\ status = "ok"
    /\ \E x \in Refs(Machine), y \in Refs(Machine),
          rest \in Rests(Machine), ord \in ArgOrders :
         CommitN(disjoin_n(Machine, s_factors, x, y, rest, ord),
                 CallN("disjoin_n", x, y, rest))

CallConjoinN ==
    /\ status = "ok"
    /\ \E x \in Refs(Machine), y \in Refs(Machine),
          rest \in Rests(Machine), ord \in ArgOrders :
         CommitN(conjoin_n(Machine, s_factors, x, y, rest, ord),
                 CallN("conjoin_n", x, y, rest))

(* join(a_ident, a_antident, a_x, a_y, a_remaining_operands...) called by *)
(* the caller with any references and any number of remaining operands,   *)
(* none included; d records a_ident.                                      *)
CallJoin ==
    /\ status = "ok"
    /\ \E a_ident \in Refs(Machine), a_antident \in Refs(Machine),
          x \in Refs(Machine), y \in Refs(Machine),
          rest \in Rests(Machine) \cup {<<>>}, ord \in ArgOrders :
         CommitN(join_n(Machine, s_factors, a_ident, a_antident,
                        x, y, rest, ord),
                 [CallN("join", x, y, rest) EXCEPT !.d = a_ident])

(* Every call the header offers a caller. *)
Next ==
    \/ CallBind
    \/ CallEmplace
    \/ CallLiteral
    \/ CallInvert
    \/ CallInvertCache
    \/ CallDisjoin
    \/ CallConjoin
    \/ CallJoinCache
    \/ CallJoin
    \/ CallDisjoinN
    \/ CallConjoinN

Spec == Init /\ [][Next]_vars

(* The program with a caller that uses global_node_sink alone: bind and   *)
(* emplace, with any arguments.                                           *)
NextSink ==
    \/ CallBind
    \/ CallEmplace

SpecSink == Init /\ [][NextSink]_vars

(* The state right after the caller's first call, bind of the first       *)
(* store.                                                                 *)
InitSession ==
    /\ mem = <<>>
    /\ stores = [s \in StoreIds |-> {}]
    /\ s_factors = bind(NULL, 1).s_factors
    /\ status = "ok"
    /\ last = [op |-> "bind", d |-> 0, x |-> 1, y |-> 0,
               ret |-> bind(NULL, 1).ret, bound |-> NULL, pre |-> 0]
    /\ last_bind = 1
    /\ caches = NoCaches

(* The program with a caller that works in one session: it builds         *)
(* literals and combines them with disjoin and conjoin calls of three or  *)
(* more operands.                                                         *)
NextNary ==
    \/ CallLiteral
    \/ CallDisjoinN
    \/ CallConjoinN

SpecNary == InitSession /\ [][NextNary]_vars

DeepDepths == 0 .. (DeepVars - 1)

(* The machine of a session that has built nothing yet. *)
Unbuilt == [mem |-> <<>>, stores |-> [s \in StoreIds |-> {}], ok |-> TRUE]

RECURSIVE AfterEmplaces(_, _)
(* The state is one a session reaches from machine m, store 1 bound, with *)
(* n more emplace calls of any arguments.                                 *)
AfterEmplaces(m, n) ==
    IF n = 0
    THEN mem = m.mem /\ stores = m.stores
    ELSE \E d \in DeepDepths, l \in Refs(m), r \in Refs(m) :
           AfterEmplaces(emplace(m, 1, d, l, r).m, n - 1)

(* A session in which store 1 is bound and the caller has made DeepNodes  *)
(* emplace calls over DeepVars variables.                                 *)
InitDeep ==
    /\ AfterEmplaces(Unbuilt, DeepNodes)
    /\ s_factors = 1
    /\ status = "ok"
    /\ last = NoCall
    /\ last_bind = 1
    /\ caches = NoCaches

(* The machine, carrying an empty trace. *)
Traced == [mem |-> mem, stores |-> stores, ok |-> TRUE, trace |-> <<>>]

(* invert(a_node) on a diagram of a machine of at most DeepNodes nodes,    *)
(* keeping the trace of its uses of CACHE.                                *)
CallInvertTraced ==
    /\ status = "ok"
    /\ Len(mem) <= DeepNodes
    /\ \E n \in Refs(Machine), ord \in ArgOrders :
         LET r == invert(Traced, s_factors, n, ord)
         IN /\ r.m.ok
            /\ mem' = r.m.mem
            /\ stores' = r.m.stores
            /\ last' = [op |-> "invert", d |-> 0, x |-> n, y |-> 0,
                        ret |-> r.ret, bound |-> s_factors,
                        pre |-> Len(mem), trace |-> r.m.trace]
            /\ UNCHANGED <<s_factors, status, last_bind, caches>>

NextDeep == CallInvertTraced

SpecDeep == InitDeep /\ [][NextDeep]_vars

TypeOK ==
    /\ status \in {"ok"} \cup NullDerefOutcomes
    /\ s_factors \in StorePtr
    /\ Len(mem) <= MaxNodes

(* ------------------------ vocabulary of the claims --------------------- *)

ConstructOps == {"emplace", "literal", "invert", "disjoin", "conjoin"}

Returned == status = "ok" /\ last.op # "none"

(* Nodes the last call allocated. *)
Inserted == Len(mem) - last.pre

Fields(d, l, r) == [depth |-> d, negative |-> l, positive |-> r]

(* Nodes of store s whose three fields are d, l, r. *)
Holding(s, d, l, r) ==
    {a \in stores[s] : deref(Machine, a) = Fields(d, l, r)}

Assignments == [Depths -> BOOLEAN]

RECURSIVE Eval(_, _, _)
(* The value of diagram n under assignment v: negative_child when the     *)
(* variable numbered depth is false, positive_child when it is true.      *)
Eval(m, n, v) ==
    IF n = ONE THEN TRUE
    ELSE IF n = ZERO THEN FALSE
    ELSE IF v[deref(m, n).depth]
         THEN Eval(m, deref(m, n).positive, v)
         ELSE Eval(m, deref(m, n).negative, v)

SameFunction(m, n1, n2) ==
    \A v \in Assignments : Eval(m, n1, v) = Eval(m, n2, v)

RECURSIVE Within(_, _, _)
(* Every node of diagram n lies in store s. *)
Within(m, n, s) ==
    IF IsTerminal(n) THEN TRUE
    ELSE /\ n \in m.stores[s]
         /\ Within(m, deref(m, n).negative, s)
         /\ Within(m, deref(m, n).positive, s)

(* ------------------------------ claims -------------------------------- *)

(* C1, as stated: while store S is bound, an emplace call with the fields *)
(* of a node a of S returns a, S holds exactly one node with those        *)
(* fields, and every emplace call whose fields differ from a's in some    *)
(* component returns a reference other than a.                            *)
C1_AnyOtherFieldsDiffer ==
    s_factors # NULL /\ status = "ok" =>
      \A a \in stores[s_factors] :
        \A d \in Depths, l \in Refs(Machine), r \in Refs(Machine) :
          Fields(d, l, r) # deref(Machine, a) =>
            emplace(Machine, s_factors, d, l, r).ret # a

(* C1, amended: while store S is bound, an emplace call with              *)
(* negative_child # positive_child returns a node of S with exactly those *)
(* fields, the only such node of S; repeating the call returns the same   *)
(* reference and changes nothing; and an emplace call with                *)
(* negative_child # positive_child whose fields differ in some component  *)
(* returns a different reference.                                         *)
C1_Canonicalization ==
    s_factors # NULL /\ status = "ok" =>
      /\ last.op = "emplace" /\ last.x # last.y =>
            Holding(s_factors, last.d, last.x, last.y) = {last.ret}
      /\ \A a \in stores[s_factors] :
           LET n == deref(Machine, a)
           IN /\ Holding(s_factors, n.depth, n.negative, n.positive) = {a}
              /\ emplace(Machine, s_factors, n.depth, n.negative, n.positive)
                    = [m |-> Machine, ret |-> a]
              /\ \A d \in Depths, l \in Refs(Machine), r \in Refs(Machine) :
                    l # r /\ Fields(d, l, r) # n =>
                      emplace(Machine, s_factors, d, l, r).ret # a

(* C1 witness: the second of two emplace calls with equal fields and      *)
(* distinct children returned the node the first one inserted.            *)
C1_Witness ==
    /\ Returned
    /\ last.op = "emplace"
    /\ last.x # last.y
    /\ s_factors # NULL
    /\ Inserted = 0
    /\ last.ret \in stores[s_factors]
    /\ Cardinality(stores[s_factors]) >= 2

(* C2: emplace(d, c, c) returns c and allocates nothing, whatever is      *)
(* bound; and no node of any store has negative_child = positive_child.   *)
C2_Reduction ==
    /\ last.op = "emplace" /\ last.x = last.y =>
          status = "ok" /\ last.ret = last.x /\ Inserted = 0
    /\ \A s \in StoreIds : \A a \in stores[s] :
          deref(Machine, a).negative # deref(Machine, a).positive

(* C2 witness: emplace(d, c, c) was called with a non-terminal c while    *)
(* the bound store holds nodes.                                           *)
C2_Witness ==
    /\ Returned
    /\ last.op = "emplace"
    /\ last.x = last.y
    /\ ~IsTerminal(last.x)
    /\ s_factors # NULL
    /\ stores[s_factors] # {}

(* The value disjoin / conjoin must have on operands x, y under v. *)
Combined(op, m, x, y, v) ==
    IF op = "disjoin" THEN Eval(m, x, v) \/ Eval(m, y, v)
    ELSE Eval(m, x, v) /\ Eval(m, y, v)

JoinOf(op, b, x, y, ord) ==
    IF op = "disjoin" THEN disjoin(Machine, b, x, y, ord)
    ELSE conjoin(Machine, b, x, y, ord)

(* C3: the reference conjoin(x, y) returned evaluates to eval(x) AND      *)
(* eval(y), the one disjoin(x, y) returned to eval(x) OR eval(y), under   *)
(* every assignment; and right after a store is bound the same holds of   *)
(* every conjoin and disjoin over the nodes built so far.                 *)
C3_JoinComputesAndOr ==
    /\ Returned /\ last.op \in {"disjoin", "conjoin"} =>
          \A v \in Assignments :
            Eval(Machine, last.ret, v)
              = Combined(last.op, Machine, last.x, last.y, v)
    /\ Returned /\ last.op = "bind" /\ s_factors # NULL =>
          \A op \in {"disjoin", "conjoin"}, ord \in ArgOrders :
            \A x \in Refs(Machine), y \in Refs(Machine) :
              LET r == JoinOf(op, s_factors, x, y, ord)
              IN /\ r.m.ok
                 /\ \A v \in Assignments :
                      Eval(r.m, r.ret, v) = Combined(op, Machine, x, y, v)

(* C3 witness: a join of two non-terminal operands of different root      *)
(* depths over disjoint variables returned a node it had to insert.       *)
C3_Witness ==
    /\ Returned
    /\ last.op = "conjoin"
    /\ ~IsTerminal(last.x)
    /\ ~IsTerminal(last.y)
    /\ deref(Machine, last.x).depth > deref(Machine, last.y).depth
    /\ IsTerminal(deref(Machine, last.x).negative)
    /\ IsTerminal(deref(Machine, last.x).positive)
    /\ IsTerminal(deref(Machine, last.y).negative)
    /\ IsTerminal(deref(Machine, last.y).positive)
    /\ Inserted = 1
    /\ deref(Machine, last.ret).depth = deref(Machine, last.y).depth

(* C4: invert(ZERO) = ONE and invert(ONE) = ZERO; the reference invert(n) *)
(* returned evaluates to the negation of n under every assignment and is  *)
(* emplace(n.depth, invert(n.negative_child), invert(n.positive_child));  *)
(* and right after a store is bound the inverse of every node built so    *)
(* far evaluates to its negation.                                         *)
C4_InvertComplements ==
    /\ Returned /\ last.op = "invert" =>
          /\ last.x = ZERO => last.ret = ONE
          /\ last.x = ONE => last.ret = ZERO
          /\ \A v \in Assignments :
                Eval(Machine, last.ret, v) = ~Eval(Machine, last.x, v)
          /\ ~IsTerminal(last.x) =>
                \A ord \in ArgOrders :
                  LET n  == deref(Machine, last.x)
                      li == invert(Machine, s_factors, n.negative, ord)
                      ri == invert(Machine, s_factors, n.positive, ord)
                  IN emplace(Machine, s_factors, n.depth, li.ret, ri.ret)
                       = [m |-> Machine, ret |-> last.ret]
    /\ Returned /\ last.op = "bind" /\ s_factors # NULL =>
          \A n \in Refs(Machine), ord \in ArgOrders :
            LET r == invert(Machine, s_factors, n, ord)
            IN /\ r.m.ok
               /\ \A v \in Assignments :
                    Eval(r.m, r.ret, v) = ~Eval(Machine, n, v)

(* C4 witness: invert of a non-terminal node returned a node it inserted, *)
(* with both children exchanged for their complements.                    *)
C4_Witness ==
    /\ Returned
    /\ last.op = "invert"
    /\ ~IsTerminal(last.x)
    /\ Inserted = 1
    /\ deref(Machine, last.ret).depth = deref(Machine, last.x).depth
    /\ deref(Machine, last.ret).negative = ONE
    /\ deref(Machine, last.x).negative = ZERO

(* C5, as stated: any two references are identical if and only if they    *)
(* denote the same boolean function, also when the store was rebound      *)
(* between their constructions.                                           *)
C5_IdentityIffEquivalentAcrossStores ==
    status = "ok" =>
      \A n1 \in Refs(Machine), n2 \in Refs(Machine) :
        (n1 = n2) <=> SameFunction(Machine, n1, n2)

(* C5, amended: two references whose diagrams lie in one and the same     *)
(* store are identical if and only if they denote the same boolean        *)
(* function.                                                              *)
C5_IdentityIffEquivalent ==
    status = "ok" =>
      \A s \in StoreIds :
        \A n1 \in Refs(Machine), n2 \in Refs(Machine) :
          Within(Machine, n1, s) /\ Within(Machine, n2, s) =>
            ((n1 = n2) <=> SameFunction(Machine, n1, n2))

(* C5 witness: invert returned, without inserting, the node of the bound  *)
(* store that already denoted the complement, while the same store holds  *)
(* nodes of other functions.                                              *)
C5_Witness ==
    /\ Returned
    /\ last.op = "invert"
    /\ s_factors # NULL
    /\ ~IsTerminal(last.x)
    /\ Inserted = 0
    /\ Within(Machine, last.x, s_factors)
    /\ Within(Machine, last.ret, s_factors)
    /\ Cardinality(stores[s_factors]) = 3

(* C6, as stated: invert applied to the reference that invert(n) returned *)
(* returns n itself, for every n.                                         *)
C6_InvolutionEverywhere ==
    Returned /\ last.op = "invert" =>
      invert(Machine, s_factors, last.ret, "lr").ret = last.x

(* C6, amended: for a terminal n, and for every n whose diagram lies in   *)
(* the bound store, invert applied to the reference that invert(n)        *)
(* returned returns n itself and inserts nothing; for every other n it    *)
(* returns a reference other than n, to a diagram that lies in the bound  *)
(* store and denotes the same function as n.  Right after a store is      *)
(* bound, the same holds of invert(invert(n)) for every n built so far.   *)
C6_Involution ==
    /\ Returned /\ last.op = "invert" =>
          \A ord \in ArgOrders :
            LET r == invert(Machine, s_factors, last.ret, ord)
            IN IF IsTerminal(last.x) \/ Within(Machine, last.x, s_factors)
               THEN r.m = Machine /\ r.ret = last.x
               ELSE /\ r.m.ok
                    /\ r.ret # last.x
                    /\ Within(r.m, r.ret, s_factors)
                    /\ SameFunction(r.m, r.ret, last.x)
    /\ Returned /\ last.op = "bind" /\ s_factors # NULL =>
          \A n \in Refs(Machine), ord \in ArgOrders :
            LET r1 == invert(Machine, s_factors, n, ord)
                r2 == invert(r1.m, s_factors, r1.ret, ord)
            IN /\ r2.m.ok
               /\ IF Within(Machine, n, s_factors)
                  THEN r2.ret = n
                  ELSE /\ r2.ret # n
                       /\ Within(r2.m, r2.ret, s_factors)
                       /\ SameFunction(r2.m, r2.ret, n)

(* C6 witness: invert of a non-terminal node of the bound store inserted  *)
(* its complement there.                                                  *)
C6_Witness ==
    /\ Returned
    /\ last.op = "invert"
    /\ s_factors # NULL
    /\ ~IsTerminal(last.x)
    /\ Within(Machine, last.x, s_factors)
    /\ Inserted = 1
    /\ last.ret \in stores[s_factors]

(* C7: a bind call returns the argument of the bind call before it (the   *)
(* initial binding, none, for the first), makes its argument the bound    *)
(* store and changes the contents of no store; no other call rebinds, so  *)
(* every construction call runs against the argument of the latest bind.  *)
C7_BindIsFlatSwap ==
    /\ [][last'.op = "bind" =>
            /\ last'.ret = last_bind
            /\ s_factors' = last'.x
            /\ mem' = mem
            /\ stores' = stores]_vars
    /\ [][last'.op # "bind" => s_factors' = s_factors]_vars
    /\ [](last.op \in ConstructOps => last.bound = last_bind)

(* C7 witness: with nodes in a store, a bind of another store returned    *)
(* the store bound before, which was itself bound by an earlier bind.     *)
C7_Witness ==
    /\ last.op = "bind"
    /\ last.ret # NULL
    /\ last.x # NULL
    /\ last.x # last.ret
    /\ stores[last.ret] # {}
    /\ s_factors = last.x

(* Addresses allocated by the step. *)
NewNodes == {a + 1 : a \in (Len(mem) + 1) .. Len(mem')}

(* C8: a construction call made while store A is bound puts every node it *)
(* allocates into A and leaves every other store and every existing node  *)
(* as it was; no node is in two stores, so a node built under B is never  *)
(* the field-equal node built under A.                                    *)
C8_SessionIsolation ==
    /\ [][last'.op \in ConstructOps =>
            /\ \A s \in StoreIds \ {s_factors} : stores'[s] = stores[s]
            /\ NewNodes # {} => s_factors # NULL
            /\ \A a \in NewNodes : a \in stores'[s_factors]
            /\ SubSeq(mem', 1, Len(mem)) = mem]_vars
    /\ [](\A s \in StoreIds, t \in StoreIds :
            s # t => stores[s] \cap stores[t] = {})

(* C8 witness: a call under the bound store B, on an operand held by      *)
(* store A, inserted into B a node field-equal to a node of A.            *)
C8_Witness ==
    /\ Returned
    /\ last.op \in {"invert", "disjoin", "conjoin"}
    /\ Inserted = 1
    /\ s_factors # NULL
    /\ last.ret \in stores[s_factors]
    /\ \E t \in StoreIds \ {s_factors} :
         /\ last.x \in stores[t]
         /\ \E a \in stores[t] :
              /\ a # last.ret
              /\ deref(Machine, a) = deref(Machine, last.ret)

(* C9, as stated: a construction call made while no store is bound does   *)
(* not return; one made with a store bound returns a reference.           *)
C9_UnboundIsFatal ==
    last.op \in ConstructOps =>
      IF last.bound = NULL
      THEN status # "ok" /\ last.ret = NoRef
      ELSE status = "ok" /\ last.ret \in Refs(Machine)

(* C10: disjoin(n, ZERO) = n, disjoin(n, ONE) = ONE, conjoin(n, ONE) = n, *)
(* conjoin(n, ZERO) = ZERO, in either operand order, for every n and      *)
(* whatever is bound; the call returns and allocates no node.             *)
C10_IdentityAnnihilator ==
    /\ last.op = "disjoin" /\ (IsTerminal(last.x) \/ IsTerminal(last.y)) =>
          /\ status = "ok" /\ Inserted = 0
          /\ last.y = ZERO => last.ret = last.x
          /\ last.x = ZERO => last.ret = last.y
          /\ last.y = ONE => last.ret = ONE
          /\ last.x = ONE => last.ret = ONE
    /\ last.op = "conjoin" /\ (IsTerminal(last.x) \/ IsTerminal(last.y)) =>
          /\ status = "ok" /\ Inserted = 0
          /\ last.y = ONE => last.ret = last.x
          /\ last.x = ONE => last.ret = last.y
          /\ last.y = ZERO => last.ret = ZERO
          /\ last.x = ZERO => last.ret = ZERO

(* C10 witness: disjoin(ZERO, n) returned a non-terminal n held by a      *)
(* store other than the bound one.                                        *)
C10_Witness ==
    /\ Returned
    /\ last.op = "disjoin"
    /\ last.x = ZERO
    /\ ~IsTerminal(last.y)
    /\ last.ret = last.y
    /\ s_factors # NULL
    /\ last.y \notin stores[s_factors]

(* Reference a is the node literal(i, sign) builds. *)
IsLiteral(m, a, i, sign) ==
    /\ ~IsTerminal(a)
    /\ deref(m, a) = Fields(i, IF sign THEN ZERO ELSE ONE,
                               IF sign THEN ONE ELSE ZERO)

(* C11: for every variable index i, disjoin of the literal of i and its   *)
(* complement returns ONE itself and conjoin of the two returns ZERO      *)
(* itself, in either operand order, whichever stores hold the two        *)
(* literals and whatever is bound.                                        *)
C11_Complementation ==
    /\ last.op \in {"disjoin", "conjoin"}
    /\ \E i \in Depths, sign \in BOOLEAN :
          /\ IsLiteral(Machine, last.x, i, sign)
          /\ IsLiteral(Machine, last.y, i, ~sign)
    => /\ status = "ok"
       /\ last.op = "disjoin" => last.ret = ONE
       /\ last.op = "conjoin" => last.ret = ZERO

(* C11 witness: conjoin(a_bar, a) returned ZERO for the two literals of   *)
(* variable 1, both built in the bound store.                             *)
C11_Witness ==
    /\ Returned
    /\ last.op = "conjoin"
    /\ s_factors # NULL
    /\ IsLiteral(Machine, last.x, 1, FALSE)
    /\ IsLiteral(Machine, last.y, 1, TRUE)
    /\ {last.x, last.y} \subseteq stores[s_factors]
    /\ last.ret = ZERO

(* C12: a literal(i, sign) call that returns hands back a node of the     *)
(* bound store with depth i, negative_child ZERO and positive_child ONE   *)
(* when sign is true, negative_child ONE and positive_child ZERO when it  *)
(* is false; the call allocates at most one node, and that node is the    *)
(* one returned.                                                          *)
C12_LiteralEncoding ==
    Returned /\ last.op = "literal" =>
      /\ IsLiteral(Machine, last.ret, last.d, last.x = 1)
      /\ s_factors # NULL
      /\ last.ret \in stores[s_factors]
      /\ Inserted <= 1
      /\ Inserted = 1 => last.ret = Len(mem) + 1

(* C12 witness: literal(1, false) inserted its node into a bound store    *)
(* that already held the positive literal of the same variable.           *)
C12_Witness ==
    /\ Returned
    /\ last.op = "literal"
    /\ last.d = 1
    /\ last.x = 0
    /\ Inserted = 1
    /\ deref(Machine, last.ret) = Fields(1, ONE, ZERO)
    /\ \E a \in stores[s_factors] : IsLiteral(Machine, a, 1, TRUE)

(* C13, as stated: in one disjoin or conjoin call with three or more      *)
(* operands every pairwise step works on the same cache: the cache a step *)
(* starts from holds the entries the step before it memoized.             *)
C13_FoldSharesCache ==
    Returned /\ last.op \in {"disjoin_n", "conjoin_n"} =>
      \A k \in 2 .. Len(last.folds) :
        last.folds[k].start = last.folds[k - 1].end

IdentOf(op) == IF op = "disjoin" THEN ZERO ELSE ONE

AnnihOf(op) == IF op = "disjoin" THEN ONE ELSE ZERO

(* In machine m with store b bound, ret is what the claimed recursion     *)
(* gives for the join op of the non-terminal x and y: emplace at the      *)
(* smaller depth of the joins of the branches, the deeper operand passed  *)
(* whole to both; nothing is left to allocate.                            *)
Aligned(m, b, op, x, y, ret, ord) ==
    LET X == deref(m, x)
        Y == deref(m, y)
        J(p, q) == join(m, b, IdentOf(op), AnnihOf(op), p, q, ord).ret
    IN /\ X.depth < Y.depth =>
            emplace(m, b, X.depth, J(X.negative, y), J(X.positive, y))
              = [m |-> m, ret |-> ret]
       /\ Y.depth < X.depth =>
            emplace(m, b, Y.depth, J(x, Y.negative), J(x, Y.positive))
              = [m |-> m, ret |-> ret]
       /\ X.depth = Y.depth =>
            emplace(m, b, X.depth, J(X.negative, Y.negative),
                                   J(X.positive, Y.positive))
              = [m |-> m, ret |-> ret]

(* C14: the reference a disjoin or conjoin of two non-terminal operands   *)
(* x, y returned is emplace(depth(x), join(x.negative_child, y),          *)
(* join(x.positive_child, y)) when depth(x) < depth(y), the mirror image  *)
(* when depth(y) < depth(x), and emplace of the joins of the two negative *)
(* and the two positive children when the depths are equal; for i < j,    *)
(* disjoin(literal(i, false), literal(j, false)) returned a node with     *)
(* depth i, negative_child ONE and positive_child the very reference      *)
(* literal(j, false); and right after a store is bound the same recursion *)
(* describes every join over the nodes built so far.                      *)
C14_DepthAlignment ==
    /\ Returned /\ last.op \in {"disjoin", "conjoin"}
         /\ ~IsTerminal(last.x) /\ ~IsTerminal(last.y) =>
          /\ \A ord \in ArgOrders :
                Aligned(Machine, s_factors, last.op, last.x, last.y,
                        last.ret, ord)
          /\ \A i \in Depths, j \in Depths :
                /\ i < j
                /\ last.op = "disjoin"
                /\ IsLiteral(Machine, last.x, i, FALSE)
                /\ IsLiteral(Machine, last.y, j, FALSE)
                => /\ ~IsTerminal(last.ret)
                   /\ deref(Machine, last.ret) = Fields(i, ONE, last.y)
    /\ Returned /\ last.op = "bind" /\ s_factors # NULL =>
          \A op \in {"disjoin", "conjoin"}, ord \in ArgOrders :
            \A x \in Refs(Machine) \ {ZERO, ONE},
               y \in Refs(Machine) \ {ZERO, ONE} :
              LET r == join(Machine, s_factors, IdentOf(op), AnnihOf(op),
                            x, y, ord)
              IN r.m.ok /\ Aligned(r.m, s_factors, op, x, y, r.ret, ord)

(* C14 witness: disjoin(literal(0, false), literal(1, false)), both       *)
(* literals held by another store than the bound one, inserted the node   *)
(* (0, ONE, literal(1, false)).                                           *)
C14_Witness ==
    /\ Returned
    /\ last.op = "disjoin"
    /\ IsLiteral(Machine, last.x, 0, FALSE)
    /\ IsLiteral(Machine, last.y, 1, FALSE)
    /\ s_factors # NULL
    /\ last.x \notin stores[s_factors]
    /\ last.y \notin stores[s_factors]
    /\ Inserted = 1
    /\ deref(Machine, last.ret) = Fields(0, ONE, last.y)

RECURSIVE Reach(_, _)
(* The non-terminal nodes of diagram n. *)
Reach(m, n) ==
    IF IsTerminal(n) THEN {}
    ELSE {n} \cup Reach(m, deref(m, n).negative)
             \cup Reach(m, deref(m, n).positive)

(* C15: within one invert(n) call the complement of each non-terminal     *)
(* node reachable from n is computed exactly once, however many paths     *)
(* lead to the node: the first visit computes and stores it, and every    *)
(* later visit finds the key in the cache, returns the value stored for   *)
(* it and leaves the cache as it was.                                     *)
C15_InvertMemoization ==
    Returned /\ last.op = "invert" =>
      LET T == last.trace
      IN /\ {T[i].key : i \in 1 .. Len(T)} = Reach(Machine, last.x)
         /\ \A j \in 1 .. Len(T) :
              /\ T[j].hit <=> \E i \in 1 .. (j - 1) : T[i].key = T[j].key
              /\ T[j].hit =>
                    /\ T[j].after = T[j].before
                    /\ \A i \in 1 .. (j - 1) :
                          T[i].key = T[j].key => T[j].ret = T[i].ret
              /\ ~T[j].hit =>
                    /\ T[j].key \notin DOMAIN T[j].before
                    /\ T[j].key \in DOMAIN T[j].after
                    /\ T[j].after[T[j].key] = T[j].ret

(* C15 witness: invert of a diagram in which a node is reachable along    *)
(* two paths visited that node a second time and inserted complements.    *)
C15_Witness ==
    /\ Returned
    /\ last.op = "invert"
    /\ Inserted >= 3
    /\ \E j \in 1 .. Len(last.trace) :
          /\ last.trace[j].hit
          /\ last.trace[j].key # deref(Machine, last.x).negative
          /\ last.trace[j].key # deref(Machine, last.x).positive

(* C16: for both parameterizations, join of x and y and join of y and x   *)
(* return the identical reference: the swapped call, made right after the *)
(* call that returned, returns the same reference and allocates nothing;  *)
(* right after a store is bound, for all x and y built so far the two     *)
(* orders return the same reference, and every entry the call memoized    *)
(* under a key {p, q} is the reference join returns for p, q in either    *)
(* order.                                                                 *)
C16_JoinSymmetric ==
    /\ Returned /\ last.op \in {"disjoin", "conjoin"} =>
          \A ord \in ArgOrders :
            LET r == JoinOf(last.op, s_factors, last.y, last.x, ord)
            IN r.m = Machine /\ r.ret = last.ret
    /\ Returned /\ last.op = "bind" /\ s_factors # NULL =>
          \A op \in {"disjoin", "conjoin"}, ord \in ArgOrders :
            \A x \in Refs(Machine), y \in Refs(Machine) :
              LET xy == JoinOf(op, s_factors, x, y, ord)
                  yx == JoinOf(op, s_factors, y, x, ord)
              IN /\ xy.m.ok /\ yx.m.ok
                 /\ xy.ret = yx.ret
                 /\ \A key \in DOMAIN xy.cache :
                      \A p \in key, q \in key :
                        {p, q} = key =>
                          join(xy.m, s_factors, IdentOf(op), AnnihOf(op),
                               p, q, ord).ret = xy.cache[key]

(* C16 witness: conjoin(x, y) of two different non-terminal nodes of the  *)
(* bound store, x testing the later variable, inserted its result.        *)
C16_Witness ==
    /\ Returned
    /\ last.op = "conjoin"
    /\ s_factors # NULL
    /\ ~IsTerminal(last.x)
    /\ ~IsTerminal(last.y)
    /\ last.x # last.y
    /\ {last.x, last.y} \subseteq stores[s_factors]
    /\ deref(Machine, last.x).depth > deref(Machine, last.y).depth
    /\ Inserted = 1
    /\ last.ret \notin {last.x, last.y}

(* Child c of a node of depth d is a terminal or tests a later variable. *)
Below(m, d, c) == IF IsTerminal(c) THEN TRUE ELSE deref(m, c).depth > d

(* Every node of machine m has each non-terminal child at a depth         *)
(* strictly greater than its own.                                         *)
Ordered(m) ==
    \A a \in Refs(m) \ {ZERO, ONE} :
      /\ Below(m, deref(m, a).depth, deref(m, a).negative)
      /\ Below(m, deref(m, a).depth, deref(m, a).positive)

(* The two references the join op of the non-terminal x and y hands to    *)
(* emplace; the join is reduced when they are equal.                      *)
Halves(m, b, op, x, y, ord) ==
    LET l == branches(m, x, y)
    IN [neg |-> join(m, b, IdentOf(op), AnnihOf(op),
                     l.x_left, l.y_left, ord).ret,
        pos |-> join(m, b, IdentOf(op), AnnihOf(op),
                     l.x_right, l.y_right, ord).ret]

(* In machine m, ret, returned by the join op of x and y, is a node at    *)
(* the smaller of the two depths unless the join was reduced.             *)
AtMinDepth(m, b, op, x, y, ret, ord) ==
    Halves(m, b, op, x, y, ord).neg # Halves(m, b, op, x, y, ord).pos =>
      /\ ~IsTerminal(ret)
      /\ deref(m, ret).depth
            = IF deref(m, x).depth < deref(m, y).depth
              THEN deref(m, x).depth ELSE deref(m, y).depth

(* C17: in every state a caller reaches with bind, literal, invert,       *)
(* disjoin and conjoin, every node of every store has each non-terminal   *)
(* child at a strictly greater depth than its own, so no diagram has a    *)
(* cycle; the node a non-reduced join of non-terminal x and y returned    *)
(* has depth min(depth(x), depth(y)); and right after a store is bound,   *)
(* every invert and every join over the nodes built so far keeps the      *)
(* order and returns a node at the smaller depth.                         *)
C17_Ordering ==
    /\ Ordered(Machine)
    /\ Returned /\ last.op \in {"disjoin", "conjoin"}
         /\ ~IsTerminal(last.x) /\ ~IsTerminal(last.y) =>
          \A ord \in ArgOrders :
            AtMinDepth(Machine, s_factors, last.op, last.x, last.y,
                       last.ret, ord)
    /\ Returned /\ last.op = "bind" /\ s_factors # NULL =>
          /\ \A n \in Refs(Machine), ord \in ArgOrders :
                Ordered(invert(Machine, s_factors, n, ord).m)
          /\ \A op \in {"disjoin", "conjoin"}, ord \in ArgOrders :
                \A x \in Refs(Machine), y \in Refs(Machine) :
                  LET r == JoinOf(op, s_factors, x, y, ord)
                  IN /\ Ordered(r.m)
                     /\ ~IsTerminal(x) /\ ~IsTerminal(y) =>
                          AtMinDepth(r.m, s_factors, op, x, y, r.ret, ord)

(* C17 witness: a join of two non-terminal operands of different depths   *)
(* inserted a node at the smaller depth with a non-terminal child below   *)
(* it.                                                                    *)
C17_Witness ==
    /\ Returned
    /\ last.op \in {"disjoin", "conjoin"}
    /\ ~IsTerminal(last.x)
    /\ ~IsTerminal(last.y)
    /\ deref(Machine, last.x).depth < deref(Machine, last.y).depth
    /\ Inserted = 1
    /\ deref(Machine, last.ret).depth = deref(Machine, last.x).depth
    /\ \E c \in {deref(Machine, last.ret).negative,
                  deref(Machine, last.ret).positive} :
          /\ ~IsTerminal(c)
          /\ deref(Machine, c).depth > deref(Machine, last.ret).depth
====
